---- MODULE Spec2Model ----
(***************************************************************************)
(* sky-gharchive-importer: the three revisions of the importer kept in the *)
(* repository.                                                             *)
(*   "setup_only"  src/main.go          : setup() and nothing else         *)
(*   "sequential"  src/unnamed/part_001 : setup() + importDate() per hour  *)
(*   "pipelined"   src/unnamed/part_000 : setup() + getRawData() producer  *)
(*                                        + stream() consumer on a channel *)
(* Instants are counted in half hours from 2013-01-01T00:00:00Z, so that a *)
(* start/end pair can be a fraction of an hour apart.                      *)
(***************************************************************************)
EXTENDS Integers, Sequences, FiniteSets, TLC

\* ------------------------------------------------------------------------
\* Bounds and program constants
\* ------------------------------------------------------------------------

\* The largest instant (in half hours) a command line argument may name.
MaxInstant == 3

\* time.Hour, in the model's unit (half hours).
Hour == 2

\* make(chan UserEvents, 5)
ChanCap == 5

Variants == {"setup_only", "sequential", "pipelined"}

\* ------------------------------------------------------------------------
\* time.Parse(time.RFC3339, s)
\* ------------------------------------------------------------------------

\* The RFC-3339 texts of the instants 0, 1, 2, ... (half hours).
DateStrings ==
    << "2013-01-01T00:00:00Z", "2013-01-01T00:30:00Z", "2013-01-01T01:00:00Z",
       "2013-01-01T01:30:00Z", "2013-01-01T02:00:00Z", "2013-01-01T02:30:00Z",
       "2013-01-01T03:00:00Z", "2013-01-01T03:30:00Z", "2013-01-01T04:00:00Z" >>

\* time.Parse: [ok, t]; ok is FALSE when the text is not RFC-3339.
ParseRFC3339(s) ==
    IF \E k \in 1..Len(DateStrings) : DateStrings[k] = s
    THEN [ok |-> TRUE, t |-> (CHOOSE k \in 1..Len(DateStrings) : DateStrings[k] = s) - 1]
    ELSE [ok |-> FALSE, t |-> 0]

\* Go's integer division truncates toward zero (TLA+'s \div rounds down).
TruncDiv(a, b) == IF a >= 0 THEN a \div b ELSE -((-a) \div b)

\* The span in hours, without the hour of the start itself.
HoursBetween(start, end) == TruncDiv(end - start, Hour)

\* hours := int(endDate.Sub(startDate)/time.Hour) + 1
HoursOf(start, end) == TruncDiv(end - start, Hour) + 1

\* date := startDate.Add(time.Duration(i) * time.Hour)
DateOf(start, n) == start + n * Hour

\* The archive file name: "%d-%02d-%02d-%d.json.gz" of Year, Month, Day, Hour.
\* All instants of the model lie on 2013-01-01; date.Hour() drops the minutes.
UrlOf(date) == [day |-> "2013-01-01", hour |-> date \div Hour]

\* ------------------------------------------------------------------------
\* Decoded JSON values (map[string]interface{})
\* ------------------------------------------------------------------------

Nil == [t |-> "nil", v |-> ""]
Str(s) == [t |-> "string", v |-> s]
\* A JSON number; its digits are kept as text.
Num(s) == [t |-> "number", v |-> s]
\* A nested JSON object: o maps its keys to values.
Obj(f) == [t |-> "object", v |-> "", o |-> f]

\* m[k] of a Go map: the zero value (nil) when the key is absent.
Get(m, k) == IF k \in DOMAIN m THEN m[k] ELSE Nil

\* x.(string)
IsString(x) == x.t = "string"
\* x.(map[string]interface{})
IsObject(x) == x.t = "object"

RepoKeys == {"language", "forks", "watchers", "stargazers", "size"}

\* ------------------------------------------------------------------------
\* The archive service: what one hourly GET may return
\* ------------------------------------------------------------------------

\* One line of an archive: a JSON object, or text json cannot decode.
Json(rec) == [json |-> TRUE, data |-> rec]
Malformed == [json |-> FALSE, data |-> [x \in {} |-> Nil]]

T0 == DateStrings[1]
T1 == DateStrings[2]

RecAlice ==
    [created_at |-> Str(T1), actor |-> Str("alice"), type |-> Str("PushEvent"),
     repository |-> Obj([language |-> Str("Go"), forks |-> Num("3")])]
RecBob == [created_at |-> Str(T1), actor |-> Str("bob"), type |-> Str("WatchEvent")]
RecCarol ==
    [created_at |-> Str(T0), actor |-> Str("carol"),
     repository |-> Obj([language |-> Str("C"), forks |-> Num("1"), watchers |-> Num("2"),
                         stargazers |-> Num("2"), size |-> Num("40")])]
RecNoTime == [actor |-> Str("alice"), type |-> Str("PushEvent")]
RecNumTime == [created_at |-> Num("1356998400"), actor |-> Str("alice")]
RecBadTime == [created_at |-> Str("yesterday"), actor |-> Str("bob"), type |-> Str("ForkEvent")]
RecNoActor == [created_at |-> Str(T0), type |-> Str("PushEvent")]
RecObjActor == [created_at |-> Str(T0), actor |-> Obj([login |-> Str("dave")])]
RecEmptyActor == [created_at |-> Str(T1), actor |-> Str(""), type |-> Str("PushEvent")]
RecStrRepo == [created_at |-> Str(T0), actor |-> Str("erin"), type |-> Str("PushEvent"),
               repository |-> Str("sky")]

\* A response of the archive host: the GET fails, the body is no gzip stream,
\* or the body holds lines (nl: the last line ends in a newline).
HttpError == [kind |-> "http_error", lines |-> <<>>, nl |-> TRUE]
BadGzip == [kind |-> "bad_gzip", lines |-> <<>>, nl |-> TRUE]
Archive(lines, nl) == [kind |-> "ok", lines |-> lines, nl |-> nl]

Responses ==
    { HttpError, BadGzip,
      Archive(<<>>, TRUE),
      Archive(<<Json(RecAlice), Json(RecBob), Json(RecCarol)>>, TRUE),
      Archive(<<Json(RecBob), Malformed, Json(RecCarol)>>, TRUE),
      Archive(<<Json(RecNoTime), Json(RecAlice), Json(RecNumTime)>>, FALSE),
      Archive(<<Json(RecBadTime), Json(RecNoActor), Json(RecStrRepo)>>, TRUE),
      Archive(<<Json(RecObjActor), Json(RecEmptyActor)>>, TRUE) }

\* ------------------------------------------------------------------------
\* The event mapper
\* ------------------------------------------------------------------------

\* A mapper that sets only the keys the record has.
EventDataOmitAbsent(data, withAction) ==
    LET repository == Get(data, "repository")
        keys == (IF withAction /\ "type" \in DOMAIN data THEN {"action"} ELSE {})
                \cup (IF IsObject(repository) THEN RepoKeys \cap DOMAIN repository.o ELSE {})
    IN [key \in keys |->
           IF key = "action" THEN Get(data, "type") ELSE Get(repository.o, key)]

\* event.Data after the assignments of the mapper. part_000 sets "action";
\* part_001 does not. The five repository keys are assigned together whenever
\* "repository" is an object, each with repository[key] (nil when absent).
EventData(data, withAction) ==
    LET repository == Get(data, "repository")
        keys == (IF withAction THEN {"action"} ELSE {})
                \cup (IF IsObject(repository) THEN RepoKeys ELSE {})
    IN [key \in keys |->
           IF key = "action" THEN Get(data, "type") ELSE Get(repository.o, key)]

\* The mapper without its actor condition.
MapRecordAnyActor(data, lineNumber, withAction) ==
    LET timestampString == Get(data, "created_at") IN
    IF ~IsString(timestampString)
    THEN [ok |-> FALSE, warning |-> "Timestamp required."]
    ELSE LET parsed == ParseRFC3339(timestampString.v) IN
         IF ~parsed.ok
         THEN [ok |-> FALSE, warning |-> "Invalid timestamp"]
         ELSE [ok |-> TRUE,
               event |-> [username |-> Get(data, "actor").v, timestamp |-> parsed.t,
                          data |-> EventData(data, withAction),
                          line |-> lineNumber]]

\* The three nested conditions of the mapper, for the record decoded as line
\* lineNumber: an event, or the warning of the branch that dropped the record.
MapRecord(data, lineNumber, withAction) ==
    LET timestampString == Get(data, "created_at") IN
    IF ~IsString(timestampString)
    THEN [ok |-> FALSE, warning |-> "Timestamp required."]
    ELSE LET parsed == ParseRFC3339(timestampString.v) IN
         IF ~parsed.ok
         THEN [ok |-> FALSE, warning |-> "Invalid timestamp"]
         ELSE LET username == Get(data, "actor") IN
              IF ~(IsString(username) /\ username.v # "")
              THEN [ok |-> FALSE, warning |-> "Actor required"]
              ELSE [ok |-> TRUE,
                    event |-> [username |-> username.v, timestamp |-> parsed.t,
                               data |-> EventData(data, withAction),
                               line |-> lineNumber]]

\* A decoder that reports no error.
FirstBadIgnored(lines, n) == 0

\* The 1-based number of the first line json cannot decode, within the first
\* n lines; 0 when there is none.
FirstBad(lines, n) ==
    IF \E j \in 1..n : ~lines[j].json
    THEN CHOOSE j \in 1..n : ~lines[j].json /\ \A l \in 1..(j - 1) : lines[l].json
    ELSE 0

\* The events appended while decoding lines 1..n, in decode order.
RECURSIVE MapLines(_, _, _)
MapLines(lines, n, withAction) ==
    IF n = 0 THEN <<>>
    ELSE LET m == MapRecord(lines[n].data, n, withAction)
             before == MapLines(lines, n - 1, withAction)
         IN IF m.ok THEN Append(before, m.event) ELSE before

\* The per-record warnings written while decoding lines 1..n.
RECURSIVE WarnLines(_, _, _)
WarnLines(lines, n, withAction) ==
    IF n = 0 THEN <<>>
    ELSE LET m == MapRecord(lines[n].data, n, withAction)
             before == WarnLines(lines, n - 1, withAction)
         IN IF m.ok THEN before ELSE Append(before, [msg |-> m.warning, arg |-> n])

\* ------------------------------------------------------------------------
\* sort.Sort(UserEvents(events))
\* ------------------------------------------------------------------------

\* UserEvents.Less
Less(a, b) == a.timestamp < b.timestamp

Reorderings(n) == {p \in [1..n -> 1..n] : \A a, b \in 1..n : a # b => p[a] # p[b]}

IsSorted(s) == \A a, b \in 1..Len(s) : a < b => ~Less(s[b], s[a])

\* sort.Sort orders by Less and is documented as not stable: every ordering of
\* the slice that is sorted by Less is a possible result.
SortOutcomes(s) ==
    {t \in {[j \in 1..Len(s) |-> s[p[j]]] : p \in Reorderings(Len(s))} : IsSorted(t)}

\* ------------------------------------------------------------------------
\* setup()
\* ------------------------------------------------------------------------

\* properties := []*sky.Property{...}
Properties(v) ==
    IF v = "setup_only"
    THEN << "username", "company", "action", "subaction", "language", "forks",
            "watchers", "stargazers", "size" >>
    ELSE << "username", "action", "language", "forks", "watchers", "stargazers", "size" >>

\* A setup that overwrites without deleting first.
SetupPlanNoDelete(v, ow, found) ==
    IF found /\ ~ow THEN <<>>
    ELSE <<[op |-> "CreateTable", arg |-> ""]>>
         \o [j \in 1..Len(Properties(v)) |->
                [op |-> "CreateProperty", arg |-> Properties(v)[j]]]

\* The calls setup() would make on the Sky client if none failed, in order,
\* given whether GetTable found the table. main.go returns "Table already
\* exists" for a found table without --overwrite; part_000 and part_001 keep
\* the found table and skip the creation block.
SetupPlan(v, ow, found) ==
    LET creation == <<[op |-> "CreateTable", arg |-> ""]>>
                    \o [j \in 1..Len(Properties(v)) |->
                           [op |-> "CreateProperty", arg |-> Properties(v)[j]]]
    IN IF found
       THEN IF ow THEN <<[op |-> "DeleteTable", arg |-> ""]>> \o creation
            ELSE <<>>
       ELSE creation

\* Every revision refusing a table that is there.
SetupRefusesAlways(v, ow, found) == found /\ ~ow

\* TRUE when setup() returns the "Table already exists" error (main.go only).
SetupRefuses(v, ow, found) == v = "setup_only" /\ found /\ ~ow

\* The Sky server after the calls of a log: a failed call changes nothing.
RECURSIVE ServerAfter(_, _)
ServerAfter(server, log) ==
    IF log = <<>> THEN server
    ELSE LET call == Head(log)
             next == IF ~call.ok THEN server
                     ELSE IF call.op = "DeleteTable" THEN [exists |-> FALSE, props |-> <<>>]
                     ELSE IF call.op = "CreateTable" THEN [exists |-> TRUE, props |-> <<>>]
                     ELSE [exists |-> server.exists, props |-> Append(server.props, call.arg)]
         IN ServerAfter(next, Tail(log))

\* The calls made when the failAt-th call of the plan fails (0: none fails).
SetupCalls(plan, failAt) ==
    IF failAt = 0 THEN [j \in 1..Len(plan) |-> [op |-> plan[j].op, arg |-> plan[j].arg, ok |-> TRUE]]
    ELSE [j \in 1..failAt |-> [op |-> plan[j].op, arg |-> plan[j].arg, ok |-> j < failAt]]

\* ------------------------------------------------------------------------
\* State
\* ------------------------------------------------------------------------

VARIABLES
    variant,     \* which revision of main runs
    argv,        \* flag.Args(): the positional arguments
    overwrite,   \* --overwrite
    verbose,     \* -v
    pc,          \* where main is: "parse", "setup", "loop", "send", "exited"
    exitCode,    \* the exit status once pc = "exited"
    startDate, endDate, hours, i,  \* main's locals
    server,      \* the Sky server's table: [exists, props]
    found,       \* whether GetTable returned a table in setup()
    ops,         \* the calls setup() made on the Sky client, in order
    setupErr,    \* whether setup() returned an error
    fetched,     \* the dates passed to getRawData / importDate, in order
    responses,   \* what the archive host answered to each of them
    stderr,      \* the lines main's goroutine wrote with warn()
    events,      \* getRawData's slice as appended, before sort.Sort
    batch,       \* the sorted slice getRawData is sending: [hour, events]
    c,           \* the channel: the batches sent and not yet received
    sent,        \* every batch sent on c so far
    spc,         \* where stream is: "none", "recv", "deliver"
    cur,         \* the batch stream received last
    k,           \* the index of the next event stream adds
    addErrors,   \* how many "Unable to add event" lines stream wrote
    sink         \* the events handed to Sky (AddEvent), in order

vars == << variant, argv, overwrite, verbose, pc, exitCode, startDate, endDate,
           hours, i, server, found, ops, setupErr, fetched, responses, stderr,
           events, batch, c, sent, spc, cur, k, addErrors, sink >>

mainVars == << startDate, endDate, hours, i >>
setupVars == << server, found, ops, setupErr >>
fetchVars == << fetched, responses, events, batch >>
streamVars == << spc, cur, k, addErrors >>
flagVars == << variant, argv, overwrite, verbose >>

NoBatch == [hour |-> -1, events |-> <<>>]

ArgTexts == {DateStrings[n + 1] : n \in 0..MaxInstant} \cup {"yesterday"}

Init ==
    /\ variant \in Variants
    /\ argv \in {<<>>} \cup {<<a>> : a \in ArgTexts}
                \cup {<<a, b>> : a \in ArgTexts, b \in ArgTexts}
    /\ overwrite \in BOOLEAN
    /\ verbose \in BOOLEAN
    /\ server \in {[exists |-> FALSE, props |-> <<>>],
                   [exists |-> TRUE, props |-> <<"username", "action">>]}
    /\ pc = "parse"
    /\ exitCode = 0
    /\ startDate = 0 /\ endDate = 0 /\ hours = 0 /\ i = 0
    /\ found = FALSE /\ ops = <<>> /\ setupErr = FALSE
    /\ fetched = <<>> /\ responses = <<>> /\ stderr = <<>>
    /\ events = <<>> /\ batch = NoBatch
    /\ c = <<>> /\ sent = <<>>
    /\ spc = "none" /\ cur = NoBatch /\ k = 0 /\ addErrors = 0
    /\ sink = <<>>

Warn(msg, arg) == [msg |-> msg, arg |-> arg]

\* os.Exit(code), or main returning: the process and all its goroutines end.
Exit(code) == pc' = "exited" /\ exitCode' = code

\* ------------------------------------------------------------------------
\* main: the command line
\* ------------------------------------------------------------------------

\* flag.Parse() and the start/end dates. main.go takes no dates.
ParseArgs ==
    /\ pc = "parse"
    /\ UNCHANGED << flagVars, setupVars, fetchVars, streamVars, c, sent, sink, hours, i >>
    /\ IF variant = "setup_only"
       THEN /\ pc' = "setup"
            /\ UNCHANGED << exitCode, startDate, endDate, stderr >>
       ELSE IF Len(argv) = 0
       THEN /\ stderr' = Append(stderr, Warn("usage", 0))
            /\ Exit(1)
            /\ UNCHANGED << startDate, endDate >>
       ELSE LET s == ParseRFC3339(argv[1])
                e == IF Len(argv) = 1 THEN s ELSE ParseRFC3339(argv[2])
            IN IF ~s.ok
               THEN /\ stderr' = Append(stderr, Warn("Invalid start date", 0))
                    /\ Exit(1)
                    /\ UNCHANGED << startDate, endDate >>
               ELSE IF ~e.ok
               THEN /\ stderr' = Append(stderr, Warn("Invalid end date", 0))
                    /\ Exit(1)
                    /\ startDate' = s.t
                    /\ UNCHANGED endDate
               ELSE /\ startDate' = s.t
                    /\ endDate' = e.t
                    /\ pc' = "setup"
                    /\ UNCHANGED << exitCode, stderr >>

\* setup() and what main does with its result: exit on an error; otherwise
\* (part_000) make the channel, start stream and compute hours.
Setup ==
    /\ pc = "setup"
    /\ UNCHANGED << flagVars, fetchVars, c, sent, sink, startDate, endDate, i, cur, k, addErrors >>
    /\ \E ping \in BOOLEAN :
          IF ~ping
          THEN /\ setupErr' = TRUE
               /\ stderr' = Append(stderr, Warn("Server is not running.", 0))
               /\ IF variant = "setup_only" THEN Exit(0) ELSE Exit(1)
               /\ UNCHANGED << server, found, ops, hours, spc >>
          ELSE LET plan == SetupPlan(variant, overwrite, server.exists) IN
               \E failAt \in 0..Len(plan) :
                  LET calls == SetupCalls(plan, failAt)
                      err == failAt # 0 \/ SetupRefuses(variant, overwrite, server.exists)
                  IN /\ found' = server.exists
                     /\ ops' = calls
                     /\ server' = ServerAfter(server, calls)
                     /\ setupErr' = err
                     /\ IF err
                        THEN /\ stderr' = Append(stderr, Warn("setup error", failAt))
                             /\ IF variant = "setup_only" THEN Exit(0) ELSE Exit(1)
                             /\ UNCHANGED << hours, spc >>
                        ELSE IF variant = "setup_only"
                        THEN /\ Exit(0)
                             /\ UNCHANGED << stderr, hours, spc >>
                        ELSE /\ hours' = HoursOf(startDate, endDate)
                             /\ spc' = IF variant = "pipelined" THEN "recv" ELSE "none"
                             /\ pc' = "loop"
                             /\ UNCHANGED << stderr, exitCode >>

\* ------------------------------------------------------------------------
\* part_000: the producer (main's loop and getRawData)
\* ------------------------------------------------------------------------

\* The slice left as it was appended.
Unsorted(evs) == {evs}

\* The slice getRawData sends after sort.Sort(UserEvents(events)).
Sorted(evs) == SortOutcomes(evs)

\* One iteration of main's loop up to getRawData's send: GET, gunzip, decode
\* and map every record, sort. An error return is logged by main ("Invalid
\* file") and the loop goes on; otherwise the sorted slice waits at c <- events.
GetRawData ==
    /\ variant = "pipelined"
    /\ pc = "loop"
    /\ i < hours
    /\ UNCHANGED << flagVars, startDate, endDate, hours, setupVars, streamVars, c, sent, sink, exitCode >>
    /\ \E resp \in Responses :
          LET date == DateOf(startDate, i)
              n == Len(resp.lines)
              bad == FirstBad(resp.lines, n)
              url == Warn("url", UrlOf(date).hour)
          IN /\ fetched' = Append(fetched, date)
             /\ responses' = Append(responses, resp)
             /\ IF resp.kind # "ok"
                THEN /\ stderr' = stderr \o << url, Warn("Invalid file", 0) >>
                     /\ i' = i + 1
                     /\ UNCHANGED << pc, events, batch >>
                ELSE IF bad # 0
                THEN /\ stderr' = stderr \o << url >>
                                  \o (IF verbose THEN WarnLines(resp.lines, bad - 1, TRUE) ELSE <<>>)
                                  \o << Warn("Invalid file", bad) >>
                     /\ i' = i + 1
                     /\ UNCHANGED << pc, events, batch >>
                ELSE /\ stderr' = stderr \o << url >>
                                  \o (IF verbose THEN WarnLines(resp.lines, n, TRUE) ELSE <<>>)
                     /\ events' = MapLines(resp.lines, n, TRUE)
                     /\ \E sorted \in Sorted(events') :
                           batch' = [hour |-> i, events |-> sorted]
                     /\ pc' = "send"
                     /\ UNCHANGED i

\* A send that puts the batch on the channel twice.
SendTwice ==
    /\ pc = "send"
    /\ Len(c) < ChanCap
    /\ c' = c \o << batch, batch >>
    /\ sent' = sent \o << batch, batch >>
    /\ i' = i + 1
    /\ pc' = "loop"
    /\ UNCHANGED << flagVars, startDate, endDate, hours, setupVars, streamVars,
                    fetched, responses, events, batch, stderr, sink, exitCode >>

\* c <- events, which blocks while the channel holds ChanCap batches; then
\* getRawData returns nil and the loop goes on.
Send ==
    /\ pc = "send"
    /\ Len(c) < ChanCap
    /\ c' = Append(c, batch)
    /\ sent' = Append(sent, batch)
    /\ i' = i + 1
    /\ pc' = "loop"
    /\ UNCHANGED << flagVars, startDate, endDate, hours, setupVars, streamVars,
                    fetched, responses, events, batch, stderr, sink, exitCode >>

\* The loop is over: main returns, and the process ends with it.
MainReturn ==
    /\ variant \in {"pipelined", "sequential"}
    /\ pc = "loop"
    /\ i >= hours
    /\ Exit(0)
    /\ UNCHANGED << flagVars, mainVars, setupVars, fetchVars, streamVars, c, sent,
                    stderr, sink >>

\* ------------------------------------------------------------------------
\* part_000: the consumer (stream)
\* ------------------------------------------------------------------------

\* A receive from a Go channel takes the element that was sent first.
ReceiveNewest(ch) == [item |-> ch[Len(ch)], rest |-> SubSeq(ch, 1, Len(ch) - 1)]
Receive(ch) == [item |-> Head(ch), rest |-> Tail(ch)]

\* events := <-c
StreamRecv ==
    /\ pc # "exited"
    /\ spc = "recv"
    /\ c # <<>>
    /\ cur' = Receive(c).item
    /\ c' = Receive(c).rest
    /\ k' = 1
    /\ spc' = "deliver"
    /\ UNCHANGED << flagVars, mainVars, setupVars, fetchVars, pc, exitCode, sent,
                    stderr, addErrors, sink >>

\* One turn of the range loop in t.Stream: stream.AddEvent(e.username, e.event),
\* and a warning when it returns an error.
StreamAddEvent ==
    /\ pc # "exited"
    /\ spc = "deliver"
    /\ k <= Len(cur.events)
    /\ sink' = Append(sink, [hour |-> cur.hour, event |-> cur.events[k]])
    /\ k' = k + 1
    /\ \E failed \in BOOLEAN : addErrors' = IF failed THEN addErrors + 1 ELSE addErrors
    /\ UNCHANGED << flagVars, mainVars, setupVars, fetchVars, pc, exitCode, c, sent,
                    stderr, spc, cur >>

\* The range loop is over: t.Stream returns and stream waits for the next batch.
StreamDone ==
    /\ pc # "exited"
    /\ spc = "deliver"
    /\ k > Len(cur.events)
    /\ spc' = "recv"
    /\ UNCHANGED << flagVars, mainVars, setupVars, fetchVars, pc, exitCode, c, sent,
                    stderr, cur, k, addErrors, sink >>

\* ------------------------------------------------------------------------
\* part_001: the sequential importer (main's loop and importDate)
\* ------------------------------------------------------------------------

\* The lines r.ReadBytes('\n') hands to the loop body: a last line without its
\* newline comes back together with io.EOF, and the loop breaks before it.
LinesRead(resp) ==
    IF resp.nl \/ Len(resp.lines) = 0 THEN Len(resp.lines) ELSE Len(resp.lines) - 1

\* One iteration of main's loop: importDate adds each mapped event to the table
\* as it is decoded. Any error it returns ends the process with status 1; a
\* body that is no gzip stream leaves gzipReader nil (the error of
\* gzip.NewReader is not looked at) and the first read panics (status 2).
ImportDate ==
    /\ variant = "sequential"
    /\ pc = "loop"
    /\ i < hours
    /\ UNCHANGED << flagVars, startDate, endDate, hours, setupVars, streamVars, c, sent,
                    events, batch >>
    /\ \E resp \in Responses :
          LET date == DateOf(startDate, i)
              n == LinesRead(resp)
              bad == FirstBad(resp.lines, n)
              done == IF bad # 0 THEN bad - 1 ELSE n
              url == Warn("url", UrlOf(date).hour)
              added == MapLines(resp.lines, done, FALSE)
          IN /\ fetched' = Append(fetched, date)
             /\ responses' = Append(responses, resp)
             /\ IF resp.kind = "http_error"
                THEN /\ stderr' = stderr \o << url, Warn("fetch error", 0) >>
                     /\ Exit(1)
                     /\ UNCHANGED << i, sink >>
                ELSE IF resp.kind = "bad_gzip"
                THEN /\ stderr' = stderr \o << url, Warn("panic", 0) >>
                     /\ Exit(2)
                     /\ UNCHANGED << i, sink >>
                ELSE /\ sink' = sink \o [j \in 1..Len(added) |-> [hour |-> i, event |-> added[j]]]
                     /\ IF bad # 0
                        THEN /\ stderr' = stderr \o << url >> \o WarnLines(resp.lines, done, FALSE)
                                          \o << Warn("decode error", 0) >>
                             /\ Exit(1)
                             /\ UNCHANGED i
                        ELSE /\ stderr' = stderr \o << url >> \o WarnLines(resp.lines, done, FALSE)
                             /\ i' = i + 1
                             /\ UNCHANGED << pc, exitCode >>

\* ------------------------------------------------------------------------
\* Specification
\* ------------------------------------------------------------------------

Next ==
    \/ ParseArgs
    \/ Setup
    \/ GetRawData
    \/ Send
    \/ MainReturn
    \/ StreamRecv
    \/ StreamAddEvent
    \/ StreamDone
    \/ ImportDate

Spec == Init /\ [][Next]_vars

\* ------------------------------------------------------------------------
\* Vocabulary of the properties
\* ------------------------------------------------------------------------

Range(f) == {f[x] : x \in DOMAIN f}

\* Every event the run has produced, with the hour it was decoded for: the
\* ones handed to Sky, the ones in batches sent, and the ones of the batch
\* waiting at the send.
Produced ==
    Range(sink)
    \cup UNION {{[hour |-> b.hour, event |-> e] : e \in Range(b.events)} : b \in Range(sent)}
    \cup (IF pc = "send" THEN {[hour |-> batch.hour, event |-> e] : e \in Range(batch.events)}
          ELSE {})

\* The record an event was mapped from: line x.event.line of hour x.hour.
SourceOf(x) == responses[x.hour + 1].lines[x.event.line].data

\* The events handed to Sky for one hour, in the order they were handed over.
SinkOf(h) ==
    LET OfHour(x) == x.hour = h
        part == SelectSeq(sink, OfHour)
    IN [j \in 1..Len(part) |-> part[j].event]

\* The hour whose iteration main has finished (returned from, or died in).
Finished(h) == i > h \/ (pc = "exited" /\ Len(fetched) > h)

\* ------------------------------------------------------------------------
\* C1
\* ------------------------------------------------------------------------

\* C1: when the pipelined importer has ended, every batch that was sent on the
\* channel has been received and handed to Sky, whole and once: nothing is left
\* in the channel and no batch is partly delivered.
C1_EveryBatchDeliveredBeforeExit ==
    (variant = "pipelined" /\ pc = "exited") =>
        /\ c = <<>>
        /\ \A n \in 1..Len(sent) : SinkOf(sent[n].hour) = sent[n].events

\* ------------------------------------------------------------------------
\* C2
\* ------------------------------------------------------------------------

\* C2: an hour whose fetch failed (GET error or invalid gzip) does not end the
\* run: when the process has ended after such an hour, every hour of the range
\* was attempted and the exit status is 0.
C2_FetchFailureSkipsHour ==
    \A n \in 1..Len(responses) :
        (responses[n].kind # "ok" /\ pc = "exited") =>
            /\ exitCode = 0
            /\ Len(fetched) = hours

\* ------------------------------------------------------------------------
\* C3
\* ------------------------------------------------------------------------

\* The lines of an archive the importer gets to see: all of them for the json
\* decoder of part_000, the newline-terminated ones for part_001.
Seen(resp) == IF variant = "sequential" THEN LinesRead(resp) ELSE Len(resp.lines)

\* Whether line l holds a record the mapper accepts.
Accepted(resp, l) ==
    /\ resp.lines[l].json
    /\ MapRecord(resp.lines[l].data, l, TRUE).ok

\* The lines of the events of hour h that were sent (part_000) or added to the
\* table (part_001).
LinesKept(h) ==
    IF variant = "pipelined"
    THEN UNION {{e.line : e \in Range(b.events)} : b \in {x \in Range(sent) : x.hour = h}}
    ELSE {e.line : e \in Range(SinkOf(h))}

\* The number of the first of the first n lines that is no JSON object; 0 when
\* all of them are.
FirstMalformed(resp, n) ==
    LET malformed == {l \in 1..n : ~resp.lines[l].json}
    IN IF malformed = {} THEN 0
       ELSE CHOOSE l \in malformed : \A m \in malformed : l <= m

WellFormed(rec) ==
    /\ "created_at" \in DOMAIN rec
    /\ rec["created_at"].t = "string"
    /\ rec["created_at"].v \in Range(DateStrings)
    /\ "actor" \in DOMAIN rec
    /\ rec["actor"].t = "string"
    /\ rec["actor"].v # ""

\* C4: every event that is put in a batch or handed to Sky was mapped from a
\* record with an RFC-3339 string created_at and a non-empty string actor, and
\* carries that actor; a record without them adds no event.
C4_OnlyWellFormedRecordsBecomeEvents ==
    \A x \in Produced :
        /\ WellFormed(SourceOf(x))
        /\ x.event.username = SourceOf(x)["actor"].v
        /\ x.event.username # ""

\* An event reached Sky from an archive that also held records without a
\* usable created_at.
C4_Witness ==
    \E x \in Range(sink) :
        /\ x.event.line = 2
        /\ ~WellFormed(responses[x.hour + 1].lines[1].data)
        /\ ~WellFormed(responses[x.hour + 1].lines[3].data)

\* ------------------------------------------------------------------------
\* C5
\* ------------------------------------------------------------------------

\* Non-decreasing by timestamp.
InTimeOrder(s) == \A a, b \in 1..Len(s) : a < b => s[a].timestamp <= s[b].timestamp

\* s holds the elements of t, each as often as t does.
IsPermutationOf(s, t) ==
    /\ Len(s) = Len(t)
    /\ \E p \in Reorderings(Len(t)) : \A j \in 1..Len(t) : s[j] = t[p[j]]

\* Events with equal timestamps are in decode order.
TiesInDecodeOrder(s) ==
    \A a, b \in 1..Len(s) :
        (a < b /\ s[a].timestamp = s[b].timestamp) => s[a].line < s[b].line

FloorHours(d) == d \div Hour

\* The main loop of a run with both dates parsed and setup passed has ended
\* normally (the importers exit with 0 only at the end of the loop).
LoopCompleted == variant # "setup_only" /\ pc = "exited" /\ exitCode = 0

\* What the loop has fetched so far is start, start + 1h, start + 2h, ...
FetchedHourly == \A j \in 1..Len(fetched) : fetched[j] = startDate + (j - 1) * Hour

\* C6 as stated: for any start/end pair the loop fetches exactly
\* floor_hours(end - start) + 1 instants (none when that is not positive), the
\* i-th being start + i hours.
C6_AnyPairFetchesFloorHoursPlusOne ==
    /\ FetchedHourly
    /\ LoopCompleted =>
          Len(fetched) = (IF FloorHours(endDate - startDate) + 1 > 0
                          THEN FloorHours(endDate - startDate) + 1 ELSE 0)

\* C6 as amended: for any start/end pair with end >= start the loop fetches
\* exactly floor_hours(end - start) + 1 instants, the i-th being start + i
\* hours, never more while it runs; with a single date argument exactly one
\* hour is fetched.
C6_OrderedPairFetchesFloorHoursPlusOne ==
    /\ FetchedHourly
    /\ endDate >= startDate => Len(fetched) <= FloorHours(endDate - startDate) + 1
    /\ (LoopCompleted /\ endDate >= startDate) =>
          Len(fetched) = FloorHours(endDate - startDate) + 1
    /\ (LoopCompleted /\ Len(argv) = 1) => fetched = << startDate >>

\* A run over a span of more than one hour that is no whole number of hours
\* has ended normally.
C6_Witness ==
    /\ LoopCompleted
    /\ endDate - startDate > Hour
    /\ (endDate - startDate) % Hour # 0
    /\ Len(fetched) = 2

\* ------------------------------------------------------------------------
\* C7
\* ------------------------------------------------------------------------

\* setup() has run as far as GetTable and main has acted on its result.
PastSetup == pc \in {"loop", "send", "exited"} /\ (found \/ ops # <<>>)

\* The table as every initial state with a table has it.
ExistingTable == [exists |-> TRUE, props |-> <<"username", "action">>]

\* C7 as stated: with the table there and no --overwrite, setup returns an
\* error, touches nothing, the process exits, and nothing is ever fetched or
\* delivered.
C7_ExistingTableRefused ==
    (PastSetup /\ found /\ ~overwrite) =>
        /\ setupErr
        /\ ops = <<>>
        /\ pc = "exited"
        /\ fetched = <<>>
        /\ sink = <<>>

\* C7 as amended: when GetTable returns the table and --overwrite is not set,
\* setup neither deletes nor recreates the table nor gives it properties. Only
\* main.go's setup returns the error "Table already exists" (and that revision
\* fetches nothing in any case); setup of part_000 and part_001 returns the
\* existing table without an error, and the importer goes on to fetch and
\* append to it, as the README says.
C7_ExistingTableKept ==
    (PastSetup /\ found /\ ~overwrite) =>
        /\ ops = <<>>
        /\ server = ExistingTable
        /\ variant = "setup_only" => (setupErr /\ pc = "exited" /\ fetched = <<>> /\ sink = <<>>)
        /\ variant # "setup_only" => ~setupErr
        /\ (variant # "setup_only" /\ hours > 0 /\ pc = "exited") => fetched # <<>>

\* The pipelined importer has appended events to a table it found, without
\* --overwrite.
C7_Witness ==
    /\ variant = "pipelined"
    /\ found /\ ~overwrite
    /\ sink # <<>>

\* ------------------------------------------------------------------------
\* C8
\* ------------------------------------------------------------------------

\* DeleteTable, CreateTable, then one CreateProperty per configured property,
\* in the order of the list, all successful.
OverwriteCalls ==
    << [op |-> "DeleteTable", arg |-> "", ok |-> TRUE],
       [op |-> "CreateTable", arg |-> "", ok |-> TRUE] >>
    \o [j \in 1..Len(Properties(variant)) |->
           [op |-> "CreateProperty", arg |-> Properties(variant)[j], ok |-> TRUE]]

\* C8: with --overwrite and the table there, whenever anything has been
\* fetched setup has before that deleted the table, created it and created
\* every configured property, in this order; a setup that returned without an
\* error has done all of it; and if one of the calls failed setup returned the
\* error, the process ended and nothing was fetched or delivered.
C8_OverwriteRecreatesBeforeFetch ==
    (PastSetup /\ found /\ overwrite) =>
        /\ ops # <<>> /\ ops[1].op = "DeleteTable"
        /\ (fetched # <<>> \/ ~setupErr) =>
              /\ ops = OverwriteCalls
              /\ server = [exists |-> TRUE, props |-> Properties(variant)]
        /\ (\E j \in 1..Len(ops) : ~ops[j].ok) => setupErr
        /\ ops # OverwriteCalls => setupErr
        /\ setupErr => (pc = "exited" /\ fetched = <<>> /\ sink = <<>> /\ sent = <<>>)

\* An hour has been fetched after --overwrite replaced a table that was there.
C8_Witness ==
    /\ found /\ overwrite
    /\ fetched # <<>>
    /\ ops = OverwriteCalls

\* ------------------------------------------------------------------------
\* C9
\* ------------------------------------------------------------------------

\* The repository object of a record, as a map (empty when the record has no
\* repository object).
RepositoryOf(rec) ==
    IF "repository" \in DOMAIN rec /\ rec["repository"].t = "object"
    THEN rec["repository"].o ELSE [key \in {} |-> Nil]

HasRepository(rec) == "repository" \in DOMAIN rec /\ rec["repository"].t = "object"

\* The event is keyed by the record's actor and parsed created_at.
KeyedByActorAndTime(x) ==
    /\ x.event.username = SourceOf(x)["actor"].v
    /\ DateStrings[x.event.timestamp + 1] = SourceOf(x)["created_at"].v

C10_DeliveredInRequestOrder ==
    /\ \A a, b \in 1..Len(sent) : a < b => sent[a].hour < sent[b].hour
    /\ Len(c) <= Len(sent)
    /\ c = SubSeq(sent, Len(sent) - Len(c) + 1, Len(sent))
    /\ spc = "deliver" => \A n \in 1..Len(c) : cur.hour < c[n].hour
    /\ \A a, b \in 1..Len(sink) : a < b => sink[a].hour <= sink[b].hour
    /\ \A x \in Range(sink) : spc = "deliver" => x.hour <= cur.hour

\* The pipelined importer has handed Sky events of two different hours, the
\* second of which waited in the channel behind the first.
C10_Witness ==
    /\ variant = "pipelined"
    /\ \E a, b \in 1..Len(sink) : sink[a].hour < sink[b].hour

\* ------------------------------------------------------------------------
\* C11
\* ------------------------------------------------------------------------

\* The archive was fetched, was a gzip stream and decoded to its end with no
\* line json could not decode.
DecodedToEnd(resp) ==
    /\ resp.kind = "ok"
    /\ \A l \in 1..Len(resp.lines) : resp.lines[l].json

\* How many batches were sent on the channel for hour h.
BatchesSent(h) == Cardinality({n \in 1..Len(sent) : sent[n].hour = h})

\* C11: in the pipelined importer, once getRawData has returned for an hour
\* it has sent exactly one batch for it if the archive was fetched, un-gzipped
\* and decoded to end-of-stream without error (whatever the number of valid
\* records, none included), and no batch otherwise; while it waits at the send
\* nothing of the hour is on the channel yet. Of an hour whose fetch, gzip
\* header or decode failed no event is ever sent or delivered, those mapped
\* before the failure included. No batch is sent for an hour not fetched.
C11_BatchSentIffDecodedToEnd ==
    variant = "pipelined" =>
        /\ \A n \in 1..Len(responses) :
              /\ i >= n => BatchesSent(n - 1) = (IF DecodedToEnd(responses[n]) THEN 1 ELSE 0)
              /\ i < n => (BatchesSent(n - 1) = 0 /\ pc = "send" /\ DecodedToEnd(responses[n]))
              /\ ~DecodedToEnd(responses[n]) => \A x \in Produced : x.hour # n - 1
        /\ \A b \in Range(sent) : b.hour \in 0..(Len(responses) - 1)

\* The pipelined importer has sent an empty batch for an hour whose records
\* were all dropped, and has sent nothing for an hour that failed to decode
\* after a valid record.
C11_Witness ==
    /\ variant = "pipelined"
    /\ \E b \in Range(sent) : b.events = <<>> /\ Len(responses[b.hour + 1].lines) > 0
    /\ \E n \in 1..Len(responses) :
          /\ i >= n
          /\ responses[n].kind = "ok"
          /\ ~DecodedToEnd(responses[n])
          /\ Accepted(responses[n], 1)
          /\ BatchesSent(n - 1) = 0

====
